---- MODULE Spec2Model ----
(***************************************************************************)
(* Conversation history store and query layer of chat-cli                  *)
(* (crates/chat-cli/src/cli/history.rs).                                   *)
(*                                                                         *)
(* Strings are sequences of byte values (ASCII codes), so that Rust's      *)
(* String ordering (byte-wise lexicographic), starts_with, contains and    *)
(* to_lowercase are computed, not assumed.  An Option<T> is the empty      *)
(* sequence (None) or a one-element sequence (Some).                       *)
(***************************************************************************)
EXTENDS Integers, Sequences, FiniteSets, TLC

VARIABLES
    store,  \* the conversations table: key -> stored JSON value
    now,    \* the UTC clock, in seconds
    pc,     \* where the running restore command stands ("idle": none runs)
    rs,     \* the locals of the running restore command
    out,    \* what the last finished command was given and returned
    fs      \* the file at export's --output path: none, or its content

vars == <<store, now, pc, rs, out, fs>>

(***************************************************************************)
(* Bounds of the model.                                                    *)
(***************************************************************************)
\* largest --limit value tried by list and search
MaxLimit == 2
\* seconds the clock may advance
MaxClock == 1
\* entries the store may hold when a command starts
MaxKeys == 2

(***************************************************************************)
(* Strings.                                                                *)
(***************************************************************************)
None == <<>>

Some(x) == <<x>>

\* str::starts_with
StartsWith(s, p) == Len(p) <= Len(s) /\ SubSeq(s, 1, Len(p)) = p

\* str::contains(&str)
Contains(s, sub) ==
    \E i \in 0..(Len(s) - Len(sub)) : SubSeq(s, i + 1, i + Len(sub)) = sub

\* str::to_lowercase on ASCII text: 'A'..'Z' (65..90) map to 'a'..'z'
ToLowercase(s) ==
    [i \in 1..Len(s) |-> IF s[i] \in 65..90 THEN s[i] + 32 ELSE s[i]]

\* str::find(&str): the byte offset (from 0) of the first occurrence
Find(s, sub) ==
    LET hits == {i \in 0..(Len(s) - Len(sub)) :
                    SubSeq(s, i + 1, i + Len(sub)) = sub}
    IN  IF hits = {} THEN None
        ELSE Some(CHOOSE i \in hits : \A j \in hits : i <= j)

\* str::trim: leading and trailing ASCII white space removed
Trim(s) ==
    LET keep == {i \in 1..Len(s) : s[i] \notin {9, 10, 11, 12, 13, 32}}
    IN  IF keep = {} THEN << >>
        ELSE SubSeq(s, CHOOSE i \in keep : \A j \in keep : i <= j,
                       CHOOSE i \in keep : \A j \in keep : j <= i)

\* str::replace("\n", " ")
ReplaceNewlines(s) == [i \in 1..Len(s) |-> IF s[i] = 10 THEN 32 ELSE s[i]]

\* Ord for String: byte-wise lexicographic, a proper prefix sorts first
StrLess(a, b) ==
    LET differ == {i \in 1..Len(a) : i > Len(b) \/ a[i] # b[i]}
    IN  IF differ = {} THEN Len(a) < Len(b)
        ELSE LET d == CHOOSE i \in differ : \A j \in differ : i <= j
             IN  d <= Len(b) /\ a[d] < b[d]

(***************************************************************************)
(* UTF-8.  A str is valid UTF-8 and is indexed by byte: the bytes 128..191 *)
(* continue a character, and a slice whose ends are not character          *)
(* boundaries panics.  Padding ({:<width$}) counts characters.             *)
(***************************************************************************)
\* the outcome of an operation that panicked (no string holds a byte -1)
Panic == <<-1>>

IsContinuation(b) == b \in 128..191

\* str::is_char_boundary(i), i a byte offset from 0
IsCharBoundary(s, i) ==
    \/ i = 0
    \/ i = Len(s)
    \/ i > 0 /\ i < Len(s) /\ ~IsContinuation(s[i + 1])

\* &s[a..b]
Slice(s, a, b) ==
    IF a <= b /\ IsCharBoundary(s, a) /\ IsCharBoundary(s, b)
    THEN SubSeq(s, a + 1, b)
    ELSE Panic

\* s.chars().count()
CharCount(s) == Cardinality({i \in 1..Len(s) : ~IsContinuation(s[i])})

\* format!("{:<width$}", s, width = width): spaces up to width characters
PadRight(s, width) ==
    IF CharCount(s) >= width THEN s
    ELSE s \o [i \in 1..(width - CharCount(s)) |-> 32]

\* usize::saturating_sub
SaturatingSub(a, b) == IF a >= b THEN a - b ELSE 0

\* "..."
Ellipsis == <<46, 46, 46>>

\* str::replace(from, to): every non-overlapping occurrence, left to right;
\* an empty pattern matches before every character and at the end
RECURSIVE ReplaceAll(_, _, _)
ReplaceAll(s, from, to) ==
    IF from = << >> THEN
        IF s = << >> THEN to
        ELSE LET n == CHOOSE k \in 1..Len(s) :
                          /\ IsCharBoundary(s, k)
                          /\ \A j \in 1..(k - 1) : ~IsCharBoundary(s, j)
             IN  to \o SubSeq(s, 1, n)
                    \o (IF n = Len(s) THEN to
                        ELSE ReplaceAll(SubSeq(s, n + 1, Len(s)), from, to))
    ELSE IF Len(s) < Len(from) THEN s
    ELSE IF SubSeq(s, 1, Len(from)) = from
         THEN to \o ReplaceAll(SubSeq(s, Len(from) + 1, Len(s)), from, to)
         ELSE <<s[1]>> \o ReplaceAll(SubSeq(s, 2, Len(s)), from, to)

(***************************************************************************)
(* Session records (ConversationState): the identifier, the rendered       *)
(* transcript, and the history, of which this layer reads the user prompt  *)
(* of each turn (an Option) and the length.                                *)
(***************************************************************************)
\* id "ab", transcript ["> Hi", "yo"], one turn with prompt "Hi"
RecAB ==
    [conversation_id |-> <<97, 98>>,
     transcript |-> << <<62, 32, 72, 105>>, <<121, 111>> >>,
     history |-> << Some(<<72, 105>>) >>]

\* id "ac", transcript ["yo"], two turns: a tool-use turn and prompt "OH"
RecAC ==
    [conversation_id |-> <<97, 99>>,
     transcript |-> << <<121, 111>> >>,
     history |-> << None, Some(<<79, 72>>) >>]

\* id "b", empty transcript and empty history
RecB ==
    [conversation_id |-> <<98>>,
     transcript |-> << >>,
     history |-> << >>]

Records == {RecAB, RecAC, RecB}

(***************************************************************************)
(* Stored values.  The substrate holds a JSON value; a well-formed entry   *)
(* is a JSON string whose text is the JSON document of a session record    *)
(* (double encoding).  A document is the record's fields, the identifier   *)
(* present or not; json is the kind of the JSON value that wraps it.       *)
(***************************************************************************)
\* serde_json::to_string(state): the JSON document of a session record
ToJson(state) ==
    [conversation_id |-> Some(state.conversation_id),
     transcript |-> state.transcript,
     history |-> state.history]

\* the stored form of a record: its document as a JSON string value
Encode(state) == [json |-> "string", text |-> ToJson(state)]

\* a JSON string whose text is a document that is no session record
BadText ==
    [json |-> "string",
     text |-> [conversation_id |-> None, transcript |-> << >>, history |-> << >>]]

\* a JSON value that is not a string
NotAString ==
    [json |-> "number",
     text |-> [conversation_id |-> None, transcript |-> << >>, history |-> << >>]]

\* serde_json::from_value::<String>(value)
FromValueString(value) ==
    IF value.json = "string" THEN Some(value.text) ELSE None

\* serde_json::from_str::<ConversationState>(&json_string)
FromStrState(text) ==
    IF text.conversation_id = None THEN None
    ELSE Some([conversation_id |-> text.conversation_id[1],
               transcript |-> text.transcript,
               history |-> text.history])

\* the two decode stages, as every scan of history.rs nests them
Decode(value) ==
    LET s == FromValueString(value)
    IN  IF s = None THEN None ELSE FromStrState(s[1])

RawValues == {Encode(r) : r \in Records} \cup {BadText, NotAString}

(***************************************************************************)
(* Keys.                                                                   *)
(***************************************************************************)
\* the working directories: "/a" and "/b"
Paths == { <<47, 97>>, <<47, 98>> }

\* two decimal digits
Digits2(n) == <<48 + (n \div 10), 48 + (n % 10)>>

\* chrono's "%Y%m%d_%H%M%S" of the clock; the clock counts the seconds of
\* 2025-01-01 (UTC)
FormatTimestamp(t) ==
    <<50, 48, 50, 53, 48, 49, 48, 49, 95>>
        \o Digits2(t \div 3600) \o Digits2((t \div 60) % 60) \o Digits2(t % 60)

\* format!("{}.backup.{}", original_path, timestamp)
BackupKeySamePath(original_path, t) == original_path

BackupKey(original_path, t) ==
    original_path \o <<46, 98, 97, 99, 107, 117, 112, 46>> \o FormatTimestamp(t)

(***************************************************************************)
(* The path-keyed store (crate::database): a map from key to stored value. *)
(***************************************************************************)
EmptyStore == [k \in {} |-> NotAString]

\* Database::set_conversation_by_path: single-entry replace
SetConversationByPath(s, path, state) ==
    [k \in DOMAIN s \cup {path} |-> IF k = path THEN Encode(state) ELSE s[k]]

\* a producer's raw write of one entry
PutRaw(s, path, value) ==
    [k \in DOMAIN s \cup {path} |-> IF k = path THEN value ELSE s[k]]

\* Database::get_conversation_by_path: <<"ok", Option state>> or <<"err", None>>
\* when the stored value does not decode
GetConversationByPath(s, path) ==
    IF path \notin DOMAIN s THEN <<"ok", None>>
    ELSE IF Decode(s[path]) = None THEN <<"err", None>>
    ELSE <<"ok", Decode(s[path])>>

\* every arrangement of the keys K as a sequence
RECURSIVE Arrangements(_)
Arrangements(K) ==
    IF K = {} THEN { << >> }
    ELSE UNION { { <<k>> \o rest : rest \in Arrangements(K \ {k}) } : k \in K }

\* the enumeration orders of Database::get_all_conversations: the substrate
\* implies none, so every arrangement of the store's keys
Orders(s) == Arrangements(DOMAIN s)

\* the entries handed to a scan, in the order o
Entries(s, o) == [i \in DOMAIN o |-> <<o[i], s[o[i]]>>]

(***************************************************************************)
(* Identifier resolution.                                                  *)
(***************************************************************************)
\* the match test of get_conversation_by_id
IdMatchesExactOnly(conv_id, id) == conv_id = id

IdMatchesEitherWay(conv_id, id) ==
    StartsWith(conv_id, id) \/ StartsWith(id, conv_id)

IdMatches(conv_id, id) == conv_id = id \/ StartsWith(conv_id, id)

\* the for loop of get_conversation_by_id from entry i on:
\* Some(<<path, state>>) of the first decodable entry whose id matches
RECURSIVE GetByIdFrom(_, _, _)
GetByIdFrom(entries, i, id) ==
    IF i > Len(entries) THEN None
    ELSE LET state == Decode(entries[i][2])
         IN  IF state # None /\ IdMatches(state[1].conversation_id, id)
             THEN Some(<<entries[i][1], state[1]>>)
             ELSE GetByIdFrom(entries, i + 1, id)

\* a resolver that passes over the backup entries
GetConversationByIdLiveOnly(entries, id) ==
    GetByIdFrom(SelectSeq(entries,
                          LAMBDA e : ~Contains(e[1], <<46, 98, 97, 99, 107,
                                                       117, 112, 46>>)),
                1, id)

GetConversationById(entries, id) == GetByIdFrom(entries, 1, id)

\* the id fragments given on the command line: "", "a", "ab", "ac", "b", "abc"
Fragments ==
    { << >>, <<97>>, <<97, 98>>, <<97, 99>>, <<98>>, <<97, 98, 99>> }

(***************************************************************************)
(* Previews and the content filter.                                        *)
(***************************************************************************)
\* extract_preview
ExtractPreview(state) ==
    IF state.history = << >> THEN
        \* "Empty conversation"
        <<69, 109, 112, 116, 121, 32, 99, 111, 110, 118, 101, 114, 115, 97,
          116, 105, 111, 110>>
    ELSE IF state.history[1] = None THEN
        \* "Tool use conversation"
        <<84, 111, 111, 108, 32, 117, 115, 101, 32, 99, 111, 110, 118, 101,
          114, 115, 97, 116, 105, 111, 110>>
    ELSE LET preview == ReplaceNewlines(Trim(state.history[1][1]))
             head == Slice(preview, 0, 47)
         IN  IF Len(preview) > 50
             THEN IF head = Panic THEN Panic ELSE head \o Ellipsis
             ELSE preview

\* conversation_contains_text (case-insensitive)
ConversationContainsText(state, query) ==
    LET query_lower == ToLowercase(query)
    IN  \/ \E i \in DOMAIN state.transcript :
               Contains(ToLowercase(state.transcript[i]), query_lower)
        \/ \E i \in DOMAIN state.history :
               /\ state.history[i] # None
               /\ Contains(ToLowercase(state.history[i][1]), query_lower)

\* the window of extract_search_preview around the first occurrence in text
SearchWindow(text, query, query_lower) ==
    LET pos == Find(ToLowercase(text), query_lower)[1]
        start == IF pos >= 20 THEN pos - 20 ELSE 0
        end == IF pos + Len(query) + 20 <= Len(text)
               THEN pos + Len(query) + 20 ELSE Len(text)
        context == Slice(text, start, end)
        cleaned == ReplaceNewlines(Trim(context))
        head == Slice(cleaned, 0, 47)
    IN  IF context = Panic THEN Panic
        ELSE IF Len(cleaned) > 50
        THEN IF head = Panic THEN Panic ELSE Ellipsis \o head \o Ellipsis
        ELSE Ellipsis \o cleaned \o Ellipsis

\* extract_search_preview: the first transcript entry holding the query,
\* else the first prompt holding it, else the plain preview
ExtractSearchPreview(state, query) ==
    LET query_lower == ToLowercase(query)
        inTranscript == {i \in DOMAIN state.transcript :
            Find(ToLowercase(state.transcript[i]), query_lower) # None}
        inHistory == {i \in DOMAIN state.history :
            /\ state.history[i] # None
            /\ Find(ToLowercase(state.history[i][1]), query_lower) # None}
    IN  IF inTranscript # {} THEN
            SearchWindow(
                state.transcript[CHOOSE i \in inTranscript :
                                    \A j \in inTranscript : i <= j],
                query, query_lower)
        ELSE IF inHistory # {} THEN
            SearchWindow(
                state.history[CHOOSE i \in inHistory :
                                 \A j \in inHistory : i <= j][1],
                query, query_lower)
        ELSE ExtractPreview(state)

\* ConversationSummary; created_at and updated_at are placeholders
\* (Utc::now()) and are left out
Summary(state, path, preview) ==
    [id |-> state.conversation_id, path |-> path, preview |-> preview,
     message_count |-> Len(state.history)]

(***************************************************************************)
(* Sorting (slice::sort_by, a stable sort) of a sequence by its paths.     *)
(***************************************************************************)
\* whether path a must come strictly before path b
Before(a, b, descending) == IF descending THEN StrLess(b, a) ELSE StrLess(a, b)

\* the indices of paths in sorted order (stable insertion)
RECURSIVE SortIndices(_, _)
SortIndices(paths, descending) ==
    IF paths = << >> THEN << >>
    ELSE LET n == Len(paths)
             init == SortIndices(SubSeq(paths, 1, n - 1), descending)
             later == {i \in DOMAIN init : Before(paths[n], paths[init[i]], descending)}
             pos == IF later = {} THEN Len(init) + 1
                    ELSE CHOOSE i \in later : \A j \in later : i <= j
         IN  SubSeq(init, 1, pos - 1) \o <<n>> \o SubSeq(init, pos, Len(init))

\* sorted_entries.sort_by(|a, b| b.0.cmp(&a.0)): by path, descending
SortEntriesAscending(entries) ==
    LET idx == SortIndices([i \in DOMAIN entries |-> entries[i][1]], FALSE)
    IN  [i \in DOMAIN entries |-> entries[idx[i]]]

SortEntriesDescending(entries) ==
    LET idx == SortIndices([i \in DOMAIN entries |-> entries[i][1]], TRUE)
    IN  [i \in DOMAIN entries |-> entries[idx[i]]]

\* results.sort_by(|a, b| a.path.cmp(&b.path)): by path, ascending
SortResultsUnsorted(results) == results

SortResultsByPath(results) ==
    LET idx == SortIndices([i \in DOMAIN results |-> results[i].path], FALSE)
    IN  [i \in DOMAIN results |-> results[idx[i]]]

(***************************************************************************)
(* list_conversations and search_conversations.                            *)
(***************************************************************************)
\* one pass of the body of list_conversations' for loop over an entry:
\* the summaries afterwards and whether the loop breaks.  Every skip is a
\* continue; the limit is tested only after a push.
ListStepAbortsOnUndecodable(entry, conversations, limit, path_filter, contains_filter) ==
    LET path == entry[1]
        state == Decode(entry[2])
        skip == [conversations |-> conversations, stop |-> FALSE]
    IN  IF path_filter # None /\ ~Contains(path, path_filter[1]) THEN skip
        ELSE IF state = None THEN [conversations |-> conversations, stop |-> TRUE]
        ELSE IF /\ contains_filter # None
                /\ ~ConversationContainsText(state[1], contains_filter[1])
             THEN skip
        ELSE LET pushed == Append(conversations,
                     Summary(state[1], path, ExtractPreview(state[1])))
             IN  [conversations |-> pushed, stop |-> Len(pushed) >= limit]

ListStep(entry, conversations, limit, path_filter, contains_filter) ==
    LET path == entry[1]
        json_string == FromValueString(entry[2])
        state == IF json_string = None THEN None
                 ELSE FromStrState(json_string[1])
        skip == [conversations |-> conversations, stop |-> FALSE]
    IN  IF path_filter # None /\ ~Contains(path, path_filter[1]) THEN skip
        ELSE IF json_string = None THEN skip
        ELSE IF state = None THEN skip
        ELSE IF /\ contains_filter # None
                /\ ~ConversationContainsText(state[1], contains_filter[1])
             THEN skip
        ELSE LET pushed == Append(conversations,
                     Summary(state[1], path, ExtractPreview(state[1])))
             IN  [conversations |-> pushed, stop |-> Len(pushed) >= limit]

\* the for loop of list_conversations from sorted entry i on
RECURSIVE ListLoop(_, _, _, _, _, _)
ListLoop(sorted_entries, i, conversations, limit, path_filter, contains_filter) ==
    IF i > Len(sorted_entries) THEN conversations
    ELSE LET step == ListStep(sorted_entries[i], conversations, limit,
                              path_filter, contains_filter)
         IN  IF step.stop THEN step.conversations
             ELSE ListLoop(sorted_entries, i + 1, step.conversations, limit,
                           path_filter, contains_filter)

\* list_conversations once the entries are sorted
ListSorted(sorted_entries, limit, path_filter, contains_filter) ==
    ListLoop(sorted_entries, 1, << >>, limit, path_filter, contains_filter)

\* Database::list_conversations on the entries as enumerated
ListConversations(entries, limit, path_filter, contains_filter) ==
    ListSorted(SortEntriesDescending(entries), limit, path_filter,
               contains_filter)

\* one pass of the body of search_conversations' for loop over an entry:
\* an undecodable entry is a continue; a decodable one, pushed or not,
\* reaches the limit test
SearchStep(entry, results, query_lower, limit) ==
    LET path == entry[1]
        json_string == FromValueString(entry[2])
        state == IF json_string = None THEN None
                 ELSE FromStrState(json_string[1])
    IN  IF json_string = None THEN [results |-> results, stop |-> FALSE]
        ELSE IF state = None THEN [results |-> results, stop |-> FALSE]
        ELSE LET after ==
                     IF ConversationContainsText(state[1], query_lower)
                     THEN Append(results,
                              Summary(state[1], path,
                                  ExtractSearchPreview(state[1], query_lower)))
                     ELSE results
             IN  [results |-> after, stop |-> Len(after) >= limit]

\* the for loop of search_conversations from entry i on
RECURSIVE SearchLoop(_, _, _, _, _)
SearchLoop(entries, i, results, query_lower, limit) ==
    IF i > Len(entries) THEN results
    ELSE LET step == SearchStep(entries[i], results, query_lower, limit)
         IN  IF step.stop THEN step.results
             ELSE SearchLoop(entries, i + 1, step.results, query_lower, limit)

\* Database::search_conversations on the entries as enumerated
SearchConversations(entries, query, limit) ==
    SortResultsByPath(SearchLoop(entries, 1, << >>, ToLowercase(query), limit))

\* --path values: none, "a", "/b", "A"
PathFilters == { None, Some(<<97>>), Some(<<47, 98>>), Some(<<65>>) }

\* --contains values: none, "hi", "H"
ContainsFilters == { None, Some(<<104, 105>>), Some(<<72>>) }

\* search queries: "hi", "H", "x"
Queries == { <<104, 105>>, <<72>>, <<120>> }

(***************************************************************************)
(* Backup.                                                                 *)
(***************************************************************************)
\* Database::backup_conversation at clock t: the store afterwards and the
\* key returned
BackupConversationNoWrite(s, original_path, state, t) ==
    [store |-> s, key |-> BackupKey(original_path, t)]

BackupConversation(s, original_path, state, t) ==
    LET backup_key == BackupKey(original_path, t)
    IN  [store |-> SetConversationByPath(s, backup_key, state),
         key |-> backup_key]

\* restore's branch on the entry found at the destination:
\* `if let Some(existing_state)` backs it up before the set
RestoreAfterReadNoBackup(existing) == "restore_set"

RestoreAfterRead(existing) ==
    IF existing = None THEN "restore_set" ELSE "restore_backup"

(***************************************************************************)
(* Presentation formatting: truncate_string and truncate_path.             *)
(***************************************************************************)
\* truncate_string
TruncateStringNoReserve(s, max_len) ==
    IF Len(s) <= max_len THEN PadRight(s, max_len)
    ELSE LET head == Slice(s, 0, max_len)
         IN  IF head = Panic THEN Panic ELSE head \o Ellipsis

TruncateString(s, max_len) ==
    IF Len(s) <= max_len THEN PadRight(s, max_len)
    ELSE LET head == Slice(s, 0, SaturatingSub(max_len, 3))
         IN  IF head = Panic THEN Panic ELSE head \o Ellipsis

\* truncate_path, first part: the local `path` once the home directory
\* (the HOME variable, when set) is replaced by "~"
HomeSubstitute(home, path) ==
    IF home # None
    THEN IF StartsWith(path, home[1])
         THEN ReplaceAll(path, home[1], <<126>>)
         ELSE path
    ELSE path

\* truncate_path, second part: pad the path when it fits, else keep its end
FitPath(path, max_len) ==
    IF Len(path) <= max_len THEN PadRight(path, max_len)
    ELSE LET available_chars == SaturatingSub(max_len, 3)
             start_pos == SaturatingSub(Len(path), available_chars)
             tail == Slice(path, start_pos, Len(path))
             slash_pos == Find(tail, <<47>>)
         IN  IF available_chars > 0
             THEN IF tail = Panic THEN Panic
                  ELSE IF slash_pos # None
                       THEN Ellipsis
                                \o Slice(path, start_pos + slash_pos[1], Len(path))
                       ELSE Ellipsis \o tail
             ELSE Ellipsis

TruncatePath(home, path, max_len) == FitPath(HomeSubstitute(home, path), max_len)

(***************************************************************************)
(* Export renderings.  A rendering is the sequence of the blocks pushed    *)
(* onto the content string: the header, then per transcript entry a        *)
(* heading and a body (and, in plain text, a rule).                        *)
(***************************************************************************)
\* entry.starts_with('>')
IsUserEntry(entry) == StartsWith(entry, <<62>>)

\* entry.trim_start_matches('>'): every leading '>' removed
TrimStartMatches(entry) ==
    LET other == {i \in 1..Len(entry) : entry[i] # 62}
    IN  IF other = {} THEN << >>
        ELSE SubSeq(entry, CHOOSE i \in other : \A j \in other : i <= j,
                    Len(entry))

\* the number in the heading of the entry at index i (from 0): i / 2 + 1
SectionNumberByIndex(i) == i + 1

SectionNumber(i) == (i \div 2) + 1

\* the header block of both renderings
ExportHeader(state, original_path, t) ==
    [kind |-> "header", id |-> state.conversation_id,
     original_path |-> original_path, messages |-> Len(state.history),
     exported |-> t]

\* the blocks one pass of the for loop pushes for the entry at index i
\* (from 0); "## User Message N" / "## Assistant Response N" in markdown,
\* "USER MESSAGE N:" / "ASSISTANT RESPONSE N:" in plain text
SectionBlocks(entry, i, with_rule) ==
    LET blocks ==
            IF IsUserEntry(entry)
            THEN << [kind |-> "heading", label |-> "user",
                     number |-> SectionNumber(i)],
                    [kind |-> "body", text |-> TrimStartMatches(entry)] >>
            ELSE << [kind |-> "heading", label |-> "assistant",
                     number |-> SectionNumber(i)],
                    [kind |-> "body", text |-> entry] >>
    IN  IF with_rule THEN Append(blocks, [kind |-> "rule"]) ELSE blocks

\* the for loop over state.transcript.iter().enumerate() from index i on
RECURSIVE SectionsFrom(_, _, _)
SectionsFrom(transcript, i, with_rule) ==
    IF i >= Len(transcript) THEN << >>
    ELSE SectionBlocks(transcript[i + 1], i, with_rule)
             \o SectionsFrom(transcript, i + 1, with_rule)

\* format_conversation_as_markdown, exported at clock t
FormatConversationAsMarkdown(state, original_path, t) ==
    <<ExportHeader(state, original_path, t)>>
        \o SectionsFrom(state.transcript, 0, FALSE)

\* format_conversation_as_text, exported at clock t
FormatConversationAsText(state, original_path, t) ==
    <<ExportHeader(state, original_path, t)>>
        \o SectionsFrom(state.transcript, 0, TRUE)

\* --format
ExportFormats == {"json", "markdown", "text"}

\* the content export writes: `match format`
ExportContent(state, original_path, format, t) ==
    IF format = "json" THEN << [kind |-> "json", document |-> ToJson(state)] >>
    ELSE IF format = "markdown"
         THEN FormatConversationAsMarkdown(state, original_path, t)
         ELSE FormatConversationAsText(state, original_path, t)

\* a file some other program left at the output path
OldFile == << [kind |-> "foreign"] >>

\* `fs.exists(output_path) && !force`: export refuses to write
ExportNeverRefuses(file, force) == FALSE

ExportRefuses(file, force) == file # None /\ ~force

(***************************************************************************)
(* The state machine.                                                      *)
(***************************************************************************)
NoRestore ==
    [id |-> << >>, dest |-> << >>, conversation |-> None,
     existing |-> None, backup_key |-> None, pre |-> EmptyStore]

Init ==
    /\ store = EmptyStore
    /\ now = 0
    /\ pc = "idle"
    /\ rs = NoRestore
    /\ out = [op |-> "none"]
    /\ fs = None

\* the chat session (or a foreign producer) stores a value under a working
\* directory
ProducerWrite(path, value) ==
    /\ pc = "idle"
    /\ store' = PutRaw(store, path, value)
    /\ UNCHANGED <<now, pc, rs, out, fs>>

\* a second passes
Tick ==
    /\ pc # "done"
    /\ now < MaxClock
    /\ now' = now + 1
    /\ UNCHANGED <<store, pc, rs, out, fs>>

\* what get_conversation_by_id(id) can return on store s: one result per
\* enumeration order
Resolutions(s, id) ==
    {GetConversationById(Entries(s, o), id) : o \in Orders(s)}

\* history show <ID>
Show(id, conversation) ==
    /\ pc = "idle"
    /\ pc' = "done"
    /\ out' = [op |-> "show", status |-> "ok", id |-> id,
               conversation |-> conversation]
    /\ UNCHANGED <<store, now, rs, fs>>

\* history list --limit --path --contains
List(limit, path_filter, contains_filter, conversations) ==
    /\ pc = "idle"
    /\ pc' = "done"
    /\ out' = [op |-> "list", status |-> "ok", limit |-> limit,
               path_filter |-> path_filter, contains_filter |-> contains_filter,
               conversations |-> conversations]
    /\ UNCHANGED <<store, now, rs, fs>>

\* history search <QUERY> --limit
Search(query, limit, results) ==
    /\ pc = "idle"
    /\ pc' = "done"
    /\ out' = [op |-> "search", status |-> "ok", query |-> query,
               limit |-> limit, results |-> results]
    /\ UNCHANGED <<store, now, rs, fs>>

\* history restore <ID>, run in directory dest: resolve the id
RestoreResolve(id, dest, conversation) ==
    /\ pc = "idle"
    /\ LET locals == [id |-> id, dest |-> dest,
                      conversation |-> conversation, existing |-> None,
                      backup_key |-> None, pre |-> store]
       IN  IF conversation = None
           THEN /\ pc' = "done"
                /\ out' = [op |-> "restore", status |-> "not_found",
                           r |-> locals]
                /\ UNCHANGED rs
           ELSE /\ pc' = "restore_read"
                /\ rs' = locals
                /\ UNCHANGED out
    /\ UNCHANGED <<store, now, fs>>

\* restore: get_conversation_by_path(&current_dir)?
RestoreRead ==
    /\ pc = "restore_read"
    /\ LET got == GetConversationByPath(store, rs.dest)
       IN  IF got[1] = "err"
           THEN /\ pc' = "done"
                /\ rs' = NoRestore
                /\ out' = [op |-> "restore", status |-> "error", r |-> rs]
           ELSE /\ pc' = RestoreAfterRead(got[2])
                /\ rs' = [rs EXCEPT !.existing = got[2]]
                /\ UNCHANGED out
    /\ UNCHANGED <<store, now, fs>>

\* restore: backup_conversation(&current_path, &existing_state)?
RestoreBackupOfResolved ==
    /\ pc = "restore_backup"
    /\ LET b == BackupConversation(store, rs.dest, rs.conversation[1][2], now)
       IN  /\ store' = b.store
           /\ rs' = [rs EXCEPT !.backup_key = Some(b.key)]
    /\ pc' = "restore_set"
    /\ UNCHANGED <<now, out, fs>>

RestoreBackup ==
    /\ pc = "restore_backup"
    /\ LET b == BackupConversation(store, rs.dest, rs.existing[1], now)
       IN  /\ store' = b.store
           /\ rs' = [rs EXCEPT !.backup_key = Some(b.key)]
    /\ pc' = "restore_set"
    /\ UNCHANGED <<now, out, fs>>

\* restore: set_conversation_by_path(&current_dir, &state)?
RestoreSet ==
    /\ pc = "restore_set"
    /\ store' = SetConversationByPath(store, rs.dest, rs.conversation[1][2])
    /\ pc' = "done"
    /\ rs' = NoRestore
    /\ out' = [op |-> "restore", status |-> "ok", r |-> rs]
    /\ UNCHANGED <<now, fs>>

\* HistoryArgs::execute returns: the command's process ends
Exit ==
    /\ pc = "done"
    /\ pc' = "idle"
    /\ out' = [op |-> "none"]
    /\ UNCHANGED <<store, now, rs, fs>>

\* a command starts only when none runs; its scan of the store may meet any
\* enumeration order
ShowCommand ==
    /\ pc = "idle"
    /\ Cardinality(DOMAIN store) <= MaxKeys
    /\ \E id \in Fragments :
           \E conversation \in Resolutions(store, id) : Show(id, conversation)

ListCommand ==
    /\ pc = "idle"
    /\ Cardinality(DOMAIN store) <= MaxKeys
    /\ LET sorted == {SortEntriesDescending(Entries(store, o)) : o \in Orders(store)}
       IN  \E limit \in 0..MaxLimit, path_filter \in PathFilters,
              contains_filter \in ContainsFilters :
               \E sorted_entries \in sorted :
                   List(limit, path_filter, contains_filter,
                        ListSorted(sorted_entries, limit, path_filter,
                                   contains_filter))

SearchCommand ==
    /\ pc = "idle"
    /\ Cardinality(DOMAIN store) <= MaxKeys
    /\ \E query \in Queries, limit \in 0..MaxLimit :
           \E results \in
                 {SearchConversations(Entries(store, o), query, limit) :
                     o \in Orders(store)} :
               Search(query, limit, results)

RestoreCommand ==
    /\ pc = "idle"
    /\ Cardinality(DOMAIN store) <= MaxKeys
    /\ \E id \in Fragments :
           \E conversation \in Resolutions(store, id) :
               \E dest \in Paths : RestoreResolve(id, dest, conversation)

Next ==
    \/ \E path \in Paths, value \in RawValues : ProducerWrite(path, value)
    \/ Tick
    \/ ShowCommand
    \/ ListCommand
    \/ SearchCommand
    \/ RestoreCommand
    \/ RestoreRead
    \/ RestoreBackup
    \/ RestoreSet
    \/ Exit

Spec == Init /\ [][Next]_vars

(***************************************************************************)
(* Export, the output file, and faults of the store.                       *)
(***************************************************************************)
\* history export <ID> --output --format --force
ExportIntoStore(id, format, force, conversation) ==
    /\ pc = "idle"
    /\ pc' = "done"
    /\ out' = [op |-> "export",
               status |-> IF conversation = None THEN "not_found" ELSE "ok",
               id |-> id, format |-> format, force |-> force,
               conversation |-> conversation, pre_fs |-> fs]
    /\ store' = IF conversation = None THEN store
                ELSE SetConversationByPath(store, <<47, 111>>,
                                           conversation[1][2])
    /\ UNCHANGED <<now, rs, fs>>

Export(id, format, force, conversation) ==
    /\ pc = "idle"
    /\ pc' = "done"
    /\ LET result(status) ==
               [op |-> "export", status |-> status, id |-> id,
                format |-> format, force |-> force,
                conversation |-> conversation, pre_fs |-> fs]
       IN  IF conversation = None
           THEN /\ out' = result("not_found")
                /\ UNCHANGED fs
           ELSE IF ExportRefuses(fs, force)
           THEN /\ out' = result("exists")
                /\ UNCHANGED fs
           ELSE /\ out' = result("ok")
                /\ fs' = Some(ExportContent(conversation[1][2],
                                            conversation[1][1], format, now))
    /\ UNCHANGED <<store, now, rs>>

ExportCommand ==
    /\ pc = "idle"
    /\ Cardinality(DOMAIN store) <= MaxKeys
    /\ \E id \in Fragments, format \in ExportFormats, force \in BOOLEAN :
           \E conversation \in Resolutions(store, id) :
               Export(id, format, force, conversation)

\* another program creates or removes the file at the output path
FileChange(file) ==
    /\ pc = "idle"
    /\ fs # file
    /\ fs' = file
    /\ UNCHANGED <<store, now, pc, rs, out>>

\* get_all_conversations()? fails in show, list, search or export: the
\* command returns the error
QueryEnumerateFails(op) ==
    /\ pc = "idle"
    /\ pc' = "done"
    /\ out' = [op |-> op, status |-> "error"]
    /\ UNCHANGED <<store, now, rs, fs>>

\* get_conversation_by_id(id)? fails in restore
RestoreEnumerateFails(id, dest) ==
    /\ pc = "idle"
    /\ pc' = "done"
    /\ out' = [op |-> "restore", status |-> "error",
               r |-> [id |-> id, dest |-> dest, conversation |-> None,
                      existing |-> None, backup_key |-> None, pre |-> store]]
    /\ UNCHANGED <<store, now, rs, fs>>

\* get_conversation_by_path(&current_dir)? fails
RestoreReadFails ==
    /\ pc = "restore_read"
    /\ pc' = "done"
    /\ rs' = NoRestore
    /\ out' = [op |-> "restore", status |-> "error", r |-> rs]
    /\ UNCHANGED <<store, now, fs>>

\* backup_conversation(..)? fails: the write did not happen
RestoreBackupFailsIgnored ==
    /\ pc = "restore_backup"
    /\ pc' = "restore_set"
    /\ UNCHANGED <<store, now, rs, out, fs>>

RestoreBackupFails ==
    /\ pc = "restore_backup"
    /\ pc' = "done"
    /\ rs' = NoRestore
    /\ out' = [op |-> "restore", status |-> "error", r |-> rs]
    /\ UNCHANGED <<store, now, fs>>

\* set_conversation_by_path(..)? fails: the write did not happen
RestoreSetFails ==
    /\ pc = "restore_set"
    /\ pc' = "done"
    /\ rs' = NoRestore
    /\ out' = [op |-> "restore", status |-> "error", r |-> rs]
    /\ UNCHANGED <<store, now, fs>>

\* the commands with the output file and a store that may fail; the clock
\* stands still
CommandNext ==
    \/ \E path \in Paths, value \in RawValues : ProducerWrite(path, value)
    \/ \E file \in {None, Some(OldFile)} : FileChange(file)
    \/ ShowCommand
    \/ ListCommand
    \/ SearchCommand
    \/ ExportCommand
    \/ RestoreCommand
    \/ RestoreRead
    \/ RestoreBackup
    \/ RestoreSet
    \/ \E op \in {"show", "list", "search", "export"} : QueryEnumerateFails(op)
    \/ \E id \in Fragments, dest \in Paths : RestoreEnumerateFails(id, dest)
    \/ RestoreReadFails
    \/ RestoreBackupFails
    \/ RestoreSetFails
    \/ Exit

CommandSpec == Init /\ [][CommandNext]_vars

(***************************************************************************)
(* Restore next to another writer of the same store: nothing in          *)
(* restore_conversation holds the store between its read of the            *)
(* destination, its backup and its final set.                              *)
(***************************************************************************)
\* the keys other writers have set since restore read the destination
Touched(r) == IF "touched" \in DOMAIN r THEN r.touched ELSE {}

\* another writer (a running chat session, or a second restore with its
\* backup and its set) stores a record under key after restore has read the
\* destination and before its final set
ConcurrentWrite(key, state) ==
    /\ pc \in {"restore_backup", "restore_set"}
    /\ store' = SetConversationByPath(store, key, state)
    /\ rs' = ("touched" :> (Touched(rs) \cup {key})) @@ rs
    /\ UNCHANGED <<now, pc, out, fs>>

ConcurrentNext ==
    \/ \E path \in Paths, state \in Records :
           ProducerWrite(path, Encode(state))
    \/ \E key \in Paths \cup {BackupKey(rs.dest, now)}, state \in Records :
           ConcurrentWrite(key, state)
    \/ RestoreCommand
    \/ RestoreRead
    \/ RestoreBackup
    \/ RestoreSet
    \/ Exit

ConcurrentSpec == Init /\ [][ConcurrentNext]_vars

(***************************************************************************)
(* The formatting functions on their own: a call is drawn, then made.      *)
(***************************************************************************)
\* largest column width tried
MaxWidth == 6

\* c repeated n times
Rep(c, n) == [i \in 1..n |-> c]

\* "", "ab", "abc", "hello", "abcdefgh", and with a two-byte character:
\* "é", "éabc", "éé"
TruncateStrings ==
    { << >>, <<97, 98>>, <<97, 98, 99>>, <<104, 101, 108, 108, 111>>,
      <<97, 98, 99, 100, 101, 102, 103, 104>>,
      <<195, 169>>, <<195, 169, 97, 98, 99>>, <<195, 169, 195, 169>> }

\* HOME: unset, or "/h"
Homes == { None, Some(<<47, 104>>) }

\* "", "/h", "/h/", "/h/p", "/h/x/h/y", "/v/long/pa", "/abcdefgh",
\* "/v/lon/ab", and with a two-byte character: "/x/aéb"
TruncatePaths ==
    { << >>, <<47, 104>>, <<47, 104, 47>>, <<47, 104, 47, 112>>,
      <<47, 104, 47, 120, 47, 104, 47, 121>>,
      <<47, 118, 47, 108, 111, 110, 103, 47, 112, 97>>,
      <<47, 97, 98, 99, 100, 101, 102, 103, 104>>,
      <<47, 118, 47, 108, 111, 110, 47, 97, 98>>,
      <<47, 120, 47, 97, 195, 169, 98>> }

\* transcript ["yo", "Say Hello\nworld "], prompt "hello there"
PrevA ==
    [conversation_id |-> <<97>>,
     transcript |-> << <<121, 111>>,
                       <<83, 97, 121, 32, 72, 101, 108, 108, 111, 10, 119,
                         111, 114, 108, 100, 32>> >>,
     history |-> << Some(<<104, 101, 108, 108, 111, 32, 116, 104, 101, 114,
                           101>>) >>]

\* transcript [30 a's + "KEY" + 30 b's, "key"], no turn
PrevB ==
    [conversation_id |-> <<98>>,
     transcript |-> << Rep(97, 30) \o <<75, 69, 89>> \o Rep(98, 30),
                       <<107, 101, 121>> >>,
     history |-> << >>]

\* transcript [25 a's + "longquerytext" + 25 b's], no turn
PrevC ==
    [conversation_id |-> <<99>>,
     transcript |-> << Rep(97, 25)
                         \o <<108, 111, 110, 103, 113, 117, 101, 114, 121,
                              116, 101, 120, 116>>
                         \o Rep(98, 25) >>,
     history |-> << >>]

\* transcript ["yo"], a tool-use turn and the prompt "find me here"
PrevD ==
    [conversation_id |-> <<100>>,
     transcript |-> << <<121, 111>> >>,
     history |-> << None,
                    Some(<<102, 105, 110, 100, 32, 109, 101, 32, 104, 101,
                           114, 101>>) >>]

\* transcript [eleven "é" + "ax"], no turn
PrevE ==
    [conversation_id |-> <<101>>,
     transcript |-> << [i \in 1..22 |-> IF i % 2 = 1 THEN 195 ELSE 169]
                         \o <<97, 120>> >>,
     history |-> << >>]

PreviewRecords == {PrevA, PrevB, PrevC, PrevD, PrevE}

\* "hello", "KEY", "LongQueryText", "me", "x", "zz"
PreviewQueries ==
    { <<104, 101, 108, 108, 111>>, <<75, 69, 89>>,
      <<76, 111, 110, 103, 81, 117, 101, 114, 121, 84, 101, 120, 116>>,
      <<109, 101>>, <<120>>, <<122, 122>> }

\* transcript ["yo", "> a", "> b"]: two user messages in a row
RecMixed ==
    [conversation_id |-> <<109>>,
     transcript |-> << <<121, 111>>, <<62, 32, 97>>, <<62, 32, 98>> >>,
     history |-> << Some(<<97>>) >>]

\* transcript [">> q", "r", "s"]: a doubled marker, two responses in a row
RecMarked ==
    [conversation_id |-> <<110>>,
     transcript |-> << <<62, 62, 32, 113>>, <<114>>, <<115>> >>,
     history |-> << Some(<<113>>) >>]

ExportRecords == {RecAB, RecB, RecMixed, RecMarked}

\* the calls that can be drawn
FormatCalls ==
    {[op |-> "call", fn |-> "truncate_string", s |-> s, max_len |-> w] :
        s \in TruncateStrings, w \in 0..MaxWidth}
    \cup
    {[op |-> "call", fn |-> "truncate_path", home |-> h, path |-> p,
      max_len |-> w] : h \in Homes, p \in TruncatePaths, w \in 0..MaxWidth}
    \cup
    {[op |-> "call", fn |-> "extract_search_preview", state |-> r,
      query |-> q] : r \in PreviewRecords, q \in PreviewQueries}
    \cup
    {[op |-> "call", fn |-> f, state |-> r, original_path |-> p] :
        f \in {"format_conversation_as_markdown",
               "format_conversation_as_text"},
        r \in ExportRecords, p \in Paths}

FormatInit ==
    /\ store = EmptyStore
    /\ now = 0
    /\ pc = "idle"
    /\ rs = NoRestore
    /\ fs = None
    /\ out \in FormatCalls

\* the drawn call returns (or panics): out keeps its arguments and result
Returns(result) ==
    /\ pc' = "done"
    /\ out' = [out EXCEPT !.op = "returned"] @@ [result |-> result]
    /\ UNCHANGED <<store, now, rs, fs>>

TruncateStringCall ==
    /\ pc = "idle"
    /\ out.op = "call"
    /\ out.fn = "truncate_string"
    /\ Returns(TruncateString(out.s, out.max_len))

TruncatePathCall ==
    /\ pc = "idle"
    /\ out.op = "call"
    /\ out.fn = "truncate_path"
    /\ out' = [out EXCEPT !.op = "returned"]
                  @@ [substituted |-> HomeSubstitute(out.home, out.path),
                      result |-> TruncatePath(out.home, out.path, out.max_len)]
    /\ pc' = "done"
    /\ UNCHANGED <<store, now, rs, fs>>

ExtractSearchPreviewCall ==
    /\ pc = "idle"
    /\ out.op = "call"
    /\ out.fn = "extract_search_preview"
    /\ Returns(ExtractSearchPreview(out.state, out.query))

FormatMarkdownCall ==
    /\ pc = "idle"
    /\ out.op = "call"
    /\ out.fn = "format_conversation_as_markdown"
    /\ Returns(FormatConversationAsMarkdown(out.state, out.original_path, now))

FormatTextCall ==
    /\ pc = "idle"
    /\ out.op = "call"
    /\ out.fn = "format_conversation_as_text"
    /\ Returns(FormatConversationAsText(out.state, out.original_path, now))

FormatNext ==
    \/ TruncateStringCall
    \/ TruncatePathCall
    \/ ExtractSearchPreviewCall
    \/ FormatMarkdownCall
    \/ FormatTextCall

FormatSpec == FormatInit /\ [][FormatNext]_vars

(***************************************************************************)
(* Properties of restore and backup.                                       *)
(***************************************************************************)
\* the record a stored value holds, when s has a decodable entry under k
Holds(s, k, state) == k \in DOMAIN s /\ Decode(s[k]) = Some(state)

\* k is <path>.backup.<15 characters of timestamp>
IsBackupKeyOf(k, path) ==
    /\ Len(k) = Len(path) + 8 + 15
    /\ SubSeq(k, 1, Len(path)) = path
    /\ SubSeq(k, Len(path) + 1, Len(path) + 8)
           = <<46, 98, 97, 99, 107, 117, 112, 46>>

\* a restore command has returned
RestoreDone == pc = "done" /\ out.op = "restore"

\* C1: when the destination holds a decodable live entry B and the id
\* resolves to record S, restore completes with the live entry at the
\* destination equal to S and with an entry under another key, of the form
\* <destination>.backup.<timestamp>, whose record is B.
C1_RestoreWithConflict ==
    (/\ RestoreDone
     /\ out.r.conversation # None
     /\ out.r.dest \in DOMAIN out.r.pre
     /\ Decode(out.r.pre[out.r.dest]) # None)
    => LET dest == out.r.dest
           B == Decode(out.r.pre[dest])[1]
           S == out.r.conversation[1][2]
       IN  /\ out.status = "ok"
           /\ Holds(store, dest, S)
           /\ \E k \in DOMAIN store :
                  /\ k # dest
                  /\ IsBackupKeyOf(k, dest)
                  /\ Holds(store, k, B)

\* a restore replaced a live record by a different one
C1_Witness ==
    /\ RestoreDone
    /\ out.status = "ok"
    /\ out.r.existing # None
    /\ out.r.existing[1] # out.r.conversation[1][2]
    /\ out.r.conversation[1][1] # out.r.dest

\* the backup entries: the keys that are no working directory
BackupKeys(s) == DOMAIN s \ Paths

\* C2: backups accumulate and are never clobbered: a restore that finds a
\* live entry at the destination adds exactly one new backup entry, and no
\* step removes a backup entry or changes its record.
C2_BackupsNeverClobbered ==
    [][/\ \A k \in BackupKeys(store) :
             k \in DOMAIN store' /\ store'[k] = store[k]
       /\ (pc = "restore_backup" /\ pc' = "restore_set")
             => Cardinality(BackupKeys(store'))
                    = Cardinality(BackupKeys(store)) + 1]_vars

\* C3: in a restore whose destination held a live record, that record is in
\* the store in every state of the restore, under the live key or under the
\* backup key, and the backup is written before the destination is
\* overwritten.
C3_BackupBeforeOverwrite ==
    /\ (/\ pc \in {"restore_backup", "restore_set"}
        /\ rs.dest \in DOMAIN rs.pre
        /\ Decode(rs.pre[rs.dest]) # None)
       => LET B == Decode(rs.pre[rs.dest])[1]
          IN  /\ \/ Holds(store, rs.dest, B)
                 \/ rs.backup_key # None /\ Holds(store, rs.backup_key[1], B)
              /\ pc = "restore_set"
                    => /\ rs.backup_key # None
                       /\ rs.backup_key[1] # rs.dest
                       /\ Holds(store, rs.backup_key[1], B)
                       /\ Holds(store, rs.dest, B)
    /\ (/\ RestoreDone
        /\ out.status = "ok"
        /\ out.r.dest \in DOMAIN out.r.pre
        /\ Decode(out.r.pre[out.r.dest]) # None)
       => /\ out.r.backup_key # None
          /\ Holds(store, out.r.backup_key[1], Decode(out.r.pre[out.r.dest])[1])

\* the backup is written, the destination not yet overwritten by a
\* different record
C3_Witness ==
    /\ pc = "restore_set"
    /\ rs.backup_key # None
    /\ rs.existing # None
    /\ rs.existing[1] # rs.conversation[1][2]

\* C4: backup(path, record) writes the record under a key different from
\* path, returns the key it wrote, and leaves the entry at path and every
\* entry under another key as it was.
C4_BackupFrame ==
    [][(pc = "restore_backup" /\ pc' = "restore_set")
       => /\ rs'.backup_key # None
          /\ LET k == rs'.backup_key[1]
             IN  /\ k # rs.dest
                 /\ Holds(store', k, rs.existing[1])
                 /\ DOMAIN store' = DOMAIN store \cup {k}
                 /\ rs.dest \in DOMAIN store'
                 /\ store'[rs.dest] = store[rs.dest]
                 /\ \A j \in DOMAIN store \ {k} : store'[j] = store[j]]_vars

\* a backup was written next to two other entries
C4_Witness ==
    /\ pc = "restore_set"
    /\ rs.backup_key # None
    /\ rs.backup_key[1] \in DOMAIN store
    /\ Cardinality(DOMAIN store) = 3
    /\ rs.backup_key[1] \notin DOMAIN rs.pre

(***************************************************************************)
(* Properties of the queries.  The filters are restated here character by  *)
(* character, apart from the operators the scans use.                      *)
(***************************************************************************)
Lower(c) == IF c \in 65..90 THEN c + 32 ELSE c

\* frag is a prefix of id (equal, or shorter and agreeing)
IsPrefixOf(frag, id) ==
    Len(frag) <= Len(id) /\ \A i \in 1..Len(frag) : id[i] = frag[i]

\* text holds q at some offset, letter case ignored
TextHas(text, q) ==
    \E i \in 0..(Len(text) - Len(q)) :
        \A k \in 1..Len(q) : Lower(text[i + k]) = Lower(q[k])

\* the transcript or some user prompt of the record holds q
RecordHas(state, q) ==
    \/ \E i \in DOMAIN state.transcript : TextHas(state.transcript[i], q)
    \/ \E i \in DOMAIN state.history :
           state.history[i] # None /\ TextHas(state.history[i][1], q)

\* the keys of s whose value decodes
DecodableKeys(s) == {k \in DOMAIN s : Decode(s[k]) # None}

\* the keys of s whose decoded id has frag as a prefix
Matching(s, frag) ==
    {k \in DOMAIN s :
        Decode(s[k]) # None /\ IsPrefixOf(frag, Decode(s[k])[1].conversation_id)}

\* r is the first entry of order o whose decoded id has frag as a prefix,
\* or none when there is no such entry
IsFirstMatch(s, o, frag, r) ==
    IF Matching(s, frag) = {} THEN r = None
    ELSE \E i \in DOMAIN o :
            /\ o[i] \in Matching(s, frag)
            /\ \A j \in 1..(i - 1) : o[j] \notin Matching(s, frag)
            /\ r = Some(<<o[i], Decode(s[o[i]])[1]>>)

ShowDone == pc = "done" /\ out.op = "show"

ListDone == pc = "done" /\ out.op = "list"

SearchDone == pc = "done" /\ out.op = "search"

\* C5: get_conversation_by_id returns the first entry, in enumeration
\* order, whose decoded id equals the fragment or has it as a prefix; it
\* returns none exactly when no decodable entry's id has the fragment as a
\* prefix; and every prefix of a stored id that no other stored id shares
\* resolves to a record with that id.
C5_ResolveFirstPrefixMatch ==
    ShowDone =>
        /\ \A o \in Orders(store) :
               IsFirstMatch(store, o, out.id,
                            GetConversationById(Entries(store, o), out.id))
        /\ \E o \in Orders(store) :
               IsFirstMatch(store, o, out.id, out.conversation)
        /\ (out.conversation = None) <=> (Matching(store, out.id) = {})
        /\ \A k \in DecodableKeys(store) :
               LET X == Decode(store[k])[1].conversation_id
               IN  \A n \in 0..Len(X) :
                       LET p == SubSeq(X, 1, n)
                       IN  (\A k2 \in Matching(store, p) :
                               Decode(store[k2])[1].conversation_id = X)
                           => \A o \in Orders(store) :
                                  LET r == GetConversationById(Entries(store, o), p)
                                  IN  r # None /\ r[1][2].conversation_id = X

\* show resolved a proper prefix that two entries with different ids share
C5_Witness ==
    /\ ShowDone
    /\ out.conversation # None
    /\ out.id # out.conversation[1][2].conversation_id
    /\ \E k1, k2 \in Matching(store, out.id) :
           Decode(store[k1])[1].conversation_id
               # Decode(store[k2])[1].conversation_id

\* the keys that pass list's path filter, decode, and pass its content
\* filter
Passing(s, path_filter, contains_filter) ==
    {k \in DecodableKeys(s) :
        /\ path_filter = None \/ Contains(k, path_filter[1])
        /\ contains_filter = None
              \/ RecordHas(Decode(s[k])[1], contains_filter[1])}

Min(a, b) == IF a <= b THEN a ELSE b

\* C6: list_conversations returns exactly min(limit, M) summaries, M the
\* number of entries that pass the filters and decode, for every limit
\* including 0, and without error.
C6_ListReturnsMinLimitM ==
    ListDone =>
        /\ out.status = "ok"
        /\ Len(out.conversations)
               = Min(out.limit,
                     Cardinality(Passing(store, out.path_filter,
                                         out.contains_filter)))

\* the paths of a sequence of summaries
PathsOf(summaries) == {summaries[i].path : i \in DOMAIN summaries}

\* C7: list_conversations returns its summaries in strictly descending
\* order of path; for limit >= 1 they are the first `limit` entries of that
\* order that pass the filters and decode; and the result is the same for
\* every enumeration order of the substrate.
C7_ListDescendingFirstLimit ==
    ListDone =>
        LET result == out.conversations
            P == Passing(store, out.path_filter, out.contains_filter)
        IN  /\ \A i, j \in DOMAIN result :
                   i < j => StrLess(result[j].path, result[i].path)
            /\ out.limit >= 1 =>
                   /\ Len(result) = Min(out.limit, Cardinality(P))
                   /\ PathsOf(result) \subseteq P
                   /\ \A p \in P \ PathsOf(result), r \in PathsOf(result) :
                          StrLess(p, r)
                   /\ \A i \in DOMAIN result :
                          LET state == Decode(store[result[i].path])[1]
                          IN  /\ result[i].id = state.conversation_id
                              /\ result[i].message_count = Len(state.history)
            /\ \A o \in Orders(store) :
                   ListConversations(Entries(store, o), out.limit,
                                     out.path_filter, out.contains_filter)
                       = result

\* a filtered list cut by its limit: more entries pass than are returned
C7_Witness ==
    /\ ListDone
    /\ out.limit >= 1
    /\ out.contains_filter # None
    /\ Len(out.conversations) = out.limit
    /\ Cardinality(Passing(store, out.path_filter, out.contains_filter))
           > out.limit

\* C8: for a fixed store, query and limit, search_conversations returns the
\* same sequence of summaries whatever the enumeration order, also when
\* more than `limit` entries match.  (Stated for limit >= 1, so that a
\* violation does not rest on how a limit of 0 is treated.)
C8_SearchSameForEveryOrder ==
    (SearchDone /\ out.limit >= 1) =>
        \A o \in Orders(store) :
            SearchConversations(Entries(store, o), out.query, out.limit)
                = out.results

\* C9: the sequence search_conversations returns is sorted by path,
\* ascending, and every summary in it belongs to a decodable entry whose
\* transcript or some user prompt holds the query, letter case ignored.
C9_SearchAscendingAndMatching ==
    SearchDone =>
        LET result == out.results
        IN  /\ \A i, j \in DOMAIN result :
                   i < j => StrLess(result[i].path, result[j].path)
            /\ \A i \in DOMAIN result :
                   /\ result[i].path \in DecodableKeys(store)
                   /\ LET state == Decode(store[result[i].path])[1]
                      IN  /\ RecordHas(state, out.query)
                          /\ result[i].id = state.conversation_id

\* a search returned two summaries
C9_Witness ==
    /\ SearchDone
    /\ Len(out.results) = 2
    /\ out.query # ToLowercase(out.query)

\* the entries that decode, in the order given
DecodableOnly(entries) ==
    SelectSeq(entries, LAMBDA e : Decode(e[2]) # None)

\* C10: in list and search an entry whose value fails either decode stage
\* is skipped: the scan goes on, the operation succeeds, the entry yields
\* no summary and does not count against the limit, so the result is the
\* result on the same entries with the undecodable ones removed.
C10_UndecodableSkipped ==
    /\ ListDone =>
           /\ out.status = "ok"
           /\ PathsOf(out.conversations) \subseteq DecodableKeys(store)
           /\ \A o \in Orders(store) :
                  ListConversations(DecodableOnly(Entries(store, o)),
                                    out.limit, out.path_filter,
                                    out.contains_filter)
                      = out.conversations
    /\ SearchDone =>
           /\ out.status = "ok"
           /\ PathsOf(out.results) \subseteq DecodableKeys(store)
           /\ \A o \in Orders(store) :
                  SearchConversations(DecodableOnly(Entries(store, o)),
                                      out.query, out.limit)
                      = SearchConversations(Entries(store, o), out.query,
                                            out.limit)
           /\ \E o \in Orders(store) :
                  SearchConversations(DecodableOnly(Entries(store, o)),
                                      out.query, out.limit)
                      = out.results

\* a list met an undecodable entry before the one it returned, and its
\* limit was reached
C10_Witness ==
    /\ ListDone
    /\ out.limit = 1
    /\ Len(out.conversations) = 1
    /\ \E k \in DOMAIN store \ DecodableKeys(store) :
           /\ StrLess(out.conversations[1].path, k)
           /\ out.path_filter = None \/ Contains(k, out.path_filter[1])

(***************************************************************************)
(* Properties of export, of the read-only commands and of failures.        *)
(***************************************************************************)
\* an export command has returned without a store fault
ExportDone == pc = "done" /\ out.op = "export" /\ out.status # "error"

\* C11: when export resolves the id, the destination file exists and force
\* is false, export writes nothing (the file's content is unchanged) and
\* signals the destination-exists condition; the file is written, with the
\* rendered content of the resolved record, only when the destination does
\* not exist or force is true.
C11_ExportDestinationExists ==
    (ExportDone /\ out.conversation # None) =>
        LET original_path == out.conversation[1][1]
            state == out.conversation[1][2]
        IN  /\ (out.pre_fs # None /\ ~out.force)
                   => /\ fs = out.pre_fs
                      /\ out.status = "exists"
            /\ (out.pre_fs = None \/ out.force)
                   => /\ out.status = "ok"
                      /\ fs # None
                      /\ fs[1] # OldFile
                      /\ IF out.format = "json"
                         THEN FromStrState(fs[1][1].document) = Some(state)
                         ELSE /\ fs[1][1].id = state.conversation_id
                              /\ fs[1][1].original_path = original_path
            /\ (fs # out.pre_fs \/ out.status = "ok")
                   => (out.pre_fs = None \/ out.force)

\* an export without --force found a file at the destination and left it
C11_Witness ==
    /\ ExportDone
    /\ out.conversation # None
    /\ out.status = "exists"
    /\ out.pre_fs = Some(OldFile)
    /\ fs = Some(OldFile)

\* the commands that only read the store
ReadOnlyOps == {"list", "show", "search", "export"}

\* C12: list, show, search and export never change the store: across every
\* step of such a command, from its start to its return, every key maps to
\* the value it had and no key is added or removed (so the same holds after
\* any sequence of them).
C12_ReadOnlyCommandsKeepStore ==
    [][(\/ pc' = "done" /\ out'.op \in ReadOnlyOps
        \/ pc = "done" /\ out.op \in ReadOnlyOps)
       => /\ DOMAIN store' = DOMAIN store
          /\ \A k \in DOMAIN store : store'[k] = store[k]]_vars

\* an export wrote its file while the store held two entries
C12_Witness ==
    /\ ExportDone
    /\ out.status = "ok"
    /\ fs # out.pre_fs
    /\ Cardinality(DOMAIN store) = 2

\* the id fragment a returned show, restore or export was given
IdGiven(o) == IF o.op = "restore" THEN o.r.id ELSE o.id

\* the command printed its not-found message
ReportedNotFound(o) ==
    IF o.op = "show" THEN o.conversation = None ELSE o.status = "not_found"

\* the command returned Ok(()): only a store or write fault is an error
SuccessOutcome(o) == o.status # "error"

\* C13: when the id fragment given to show, restore or export matches no
\* decodable entry (also when entries with undecodable values are all the
\* store holds), the command reports not-found, finishes with a success
\* outcome, and writes neither the store nor the file; restore goes no
\* further than the resolution.
C13_NotFoundIsSuccessNoWrite ==
    [][/\ (pc = "idle" /\ pc' = "restore_read")
              => Matching(store, rs'.id) # {}
       /\ (/\ pc = "idle"
           /\ pc' = "done"
           /\ out'.op \in {"show", "restore", "export"}
           /\ SuccessOutcome(out')
           /\ Matching(store, IdGiven(out')) = {})
              => /\ ReportedNotFound(out')
                 /\ store' = store
                 /\ fs' = fs]_vars

\* a forced export onto an existing file found no entry for its fragment
\* in a store that holds an undecodable entry and a decodable one
C13_Witness ==
    /\ pc = "done"
    /\ out.op = "export"
    /\ out.status = "not_found"
    /\ out.force
    /\ fs = Some(OldFile)
    /\ DecodableKeys(store) # {}
    /\ DOMAIN store \ DecodableKeys(store) # {}

\* s and p agree on every key but perhaps `except`
SameBut(s, p, except) ==
    /\ DOMAIN s \ except = DOMAIN p \ except
    /\ \A k \in DOMAIN p \ except : s[k] = p[k]

\* C14: when a store operation inside restore fails (the enumeration, the
\* read of the destination entry, the backup write or the final set),
\* restore stops at that step and returns the error: nothing is written
\* after the failure, so the destination's live entry is as it was before
\* the command, the only entry that can be new is a backup already
\* written, and a restore that returns success over a live entry did write
\* its backup.
C14_RestoreStopsAtFailure ==
    /\ (RestoreDone /\ out.status = "error") =>
           LET r == out.r
           IN  /\ SameBut(store, r.pre, {})
                  \/ /\ r.backup_key # None
                     /\ r.backup_key[1] # r.dest
                     /\ SameBut(store, r.pre, {r.backup_key[1]})
               /\ r.dest \in DOMAIN store <=> r.dest \in DOMAIN r.pre
               /\ r.dest \in DOMAIN store => store[r.dest] = r.pre[r.dest]
               /\ r.backup_key = None => SameBut(store, r.pre, {})
    /\ (RestoreDone /\ out.status = "ok" /\ out.r.existing # None) =>
           /\ out.r.backup_key # None
           /\ Holds(store, out.r.backup_key[1], out.r.existing[1])

\* the backup write failed: restore returned the error and the live entry,
\* which differs from the resolved record, is still at the destination
C14_Witness ==
    /\ RestoreDone
    /\ out.status = "error"
    /\ out.r.existing # None
    /\ out.r.backup_key = None
    /\ out.r.existing[1] # out.r.conversation[1][2]
    /\ Holds(store, out.r.dest, out.r.existing[1])

(***************************************************************************)
(* Properties of the formatting functions.  Lengths are counted in         *)
(* characters; the expected results are restated here on characters,       *)
(* apart from the operators the functions use.                             *)
(***************************************************************************)
\* the offsets (from 1) at which a character of s starts
CharStarts(s) == {i \in 1..Len(s) : s[i] < 128 \/ s[i] > 191}

NumChars(s) == Cardinality(CharStarts(s))

IsAscii(s) == \A i \in 1..Len(s) : s[i] < 128

\* the first n characters of s
FirstChars(s, n) ==
    IF n >= NumChars(s) THEN s
    ELSE LET next == CHOOSE i \in CharStarts(s) :
                         Cardinality({j \in CharStarts(s) : j < i}) = n
         IN  SubSeq(s, 1, next - 1)

\* the last n characters of s
LastChars(s, n) ==
    IF n >= NumChars(s) THEN s
    ELSE IF n = 0 THEN << >>
    ELSE LET first == CHOOSE i \in CharStarts(s) :
                          Cardinality({j \in CharStarts(s) : j >= i}) = n
         IN  SubSeq(s, first, Len(s))

Spaces(n) == [i \in 1..n |-> 32]

Max(a, b) == IF a >= b THEN a ELSE b

\* r is what the claim says truncate_string(s, w) is, len being the length
\* of s
TruncatedForLength(s, len, w, r) ==
    /\ len <= w
           => r = s \o Spaces(w - NumChars(s)) /\ NumChars(r) = w
    /\ len > w
           => /\ NumChars(r) <= w
              /\ r = FirstChars(s, Max(w - 3, 0)) \o <<46, 46, 46>>

\* the same, whether the length of s is read in characters or in bytes
TruncatedAsClaimed(s, w, r) ==
    /\ r # Panic
    /\ \/ TruncatedForLength(s, NumChars(s), w, r)
       \/ TruncatedForLength(s, Len(s), w, r)

TruncateStringDone ==
    pc = "done" /\ out.op = "returned" /\ out.fn = "truncate_string"

\* C15: for every string s and width w, truncate_string(s, w) has length
\* exactly w when s fits (s followed by spaces), and otherwise has length
\* <= w and is the first max(w-3, 0) characters of s followed by "...".
\* (Stated for w >= 3: below that the ellipsis alone is longer than w.)
C15_TruncateStringLength ==
    (TruncateStringDone /\ out.max_len >= 3)
        => TruncatedAsClaimed(out.s, out.max_len, out.result)

\* on ASCII strings and widths of 3 or more the function is as C15 says
TruncateStringAsClaimedOnAscii ==
    (TruncateStringDone /\ out.max_len >= 3 /\ IsAscii(out.s))
        => TruncatedAsClaimed(out.s, out.max_len, out.result)

\* C16 as claimed: truncate_string(s, 0) and truncate_string(s, 3) are
\* "..." whatever s is, the empty string and strings of length at most 3
\* included.
C16_EllipsisWhateverS ==
    (TruncateStringDone /\ out.max_len \in {0, 3})
        => out.result = <<46, 46, 46>>

\* C16 as amended: for every string s longer than w bytes,
\* truncate_string(s, 0) and truncate_string(s, 3) are "..."; a string that
\* fits (the empty string at width 0, a string of at most 3 bytes at width
\* 3) is returned followed by spaces up to w characters.
C16_EllipsisWhenLonger ==
    (TruncateStringDone /\ out.max_len \in {0, 3})
        => /\ Len(out.s) > out.max_len => out.result = <<46, 46, 46>>
           /\ Len(out.s) <= out.max_len
                  => out.result
                         = out.s \o Spaces(out.max_len - NumChars(out.s))

\* a string of more than 3 bytes was cut to "..." at width 3
C16_Witness ==
    /\ TruncateStringDone
    /\ out.max_len = 3
    /\ Len(out.s) > 3
    /\ out.result = <<46, 46, 46>>

TruncatePathDone ==
    pc = "done" /\ out.op = "returned" /\ out.fn = "truncate_path"

\* the path with only its leading home directory replaced by "~"
LeadingHomeReplaced(home, path) ==
    IF home # None /\ IsPrefixOf(home[1], path)
    THEN <<126>> \o SubSeq(path, Len(home[1]) + 1, Len(path))
    ELSE path

\* C17: truncate_path substitutes only the leading home-directory prefix:
\* when the path starts with the home directory exactly that leading
\* occurrence becomes "~" and every later character is kept; when it does
\* not, or no home directory is set, the path goes unchanged into the
\* fit/truncate rule.
C17_OnlyLeadingHomeReplaced ==
    TruncatePathDone =>
        /\ out.substituted = LeadingHomeReplaced(out.home, out.path)
        /\ out.result
               = FitPath(LeadingHomeReplaced(out.home, out.path), out.max_len)

\* r is what the claim says the truncation of the substituted path p to
\* width w is
PathCutAsClaimed(p, w, r) ==
    LET window == LastChars(p, w - 3)
        slashes == {i \in 1..Len(window) : window[i] = 47}
        kept == IF slashes = {} THEN window
                ELSE SubSeq(window,
                            CHOOSE i \in slashes : \A j \in slashes : i <= j,
                            Len(window))
    IN  /\ r # Panic
        /\ NumChars(r) <= w
        /\ r = <<46, 46, 46>> \o kept

\* C18: for every width w >= 3 and every path whose home-substituted form
\* is longer than w, truncate_path returns a string of length <= w that is
\* "..." followed by a suffix of the substituted path: from the first '/'
\* within its last w-3 characters when there is one, else exactly its last
\* w-3 characters.
C18_TruncatePathKeepsSuffix ==
    (/\ TruncatePathDone
     /\ out.max_len >= 3
     /\ NumChars(out.substituted) > out.max_len)
        => PathCutAsClaimed(out.substituted, out.max_len, out.result)

\* on ASCII paths the function is as C18 says
TruncatePathAsClaimedOnAscii ==
    (/\ TruncatePathDone
     /\ out.max_len >= 3
     /\ IsAscii(out.path)
     /\ NumChars(out.substituted) > out.max_len)
        => PathCutAsClaimed(out.substituted, out.max_len, out.result)

ExtractSearchPreviewDone ==
    pc = "done" /\ out.op = "returned" /\ out.fn = "extract_search_preview"

\* the transcript entries that hold q, letter case ignored
EntriesHolding(state, q) ==
    {i \in DOMAIN state.transcript : TextHas(state.transcript[i], q)}

\* the offset (from 0) of the first occurrence of q in text, case ignored
FirstOccurrence(text, q) ==
    LET at == {i \in 0..(Len(text) - Len(q)) :
                  \A k \in 1..Len(q) : Lower(text[i + k]) = Lower(q[k])}
    IN  CHOOSE i \in at : \A j \in at : i <= j

\* r is "..." + content + "...", content cut from the window of entry e
\* around the first occurrence of q: at most 20 characters before and
\* after it, within the entry, trimmed, newlines as spaces, at most 50
\* characters (offsets are in bytes, which are characters in ASCII text)
PreviewAsClaimed(e, q, r) ==
    LET pos == FirstOccurrence(e, q)
        lo == Max(pos - 20, 0)
        hi == Min(pos + Len(q) + 20, Len(e))
        window == ReplaceNewlines(Trim(SubSeq(e, lo + 1, hi)))
        content == SubSeq(r, 4, Len(r) - 3)
    IN  /\ r # Panic
        /\ Len(r) >= 6
        /\ SubSeq(r, 1, 3) = <<46, 46, 46>>
        /\ SubSeq(r, Len(r) - 2, Len(r)) = <<46, 46, 46>>
        /\ Len(content) <= 50
        /\ \A i \in 1..Len(content) : content[i] # 10
        /\ Len(content) <= Len(window)
        /\ content = SubSeq(window, 1, Len(content))
        /\ Len(window) <= 50 => content = window

\* C19: for every record and query where some transcript entry holds the
\* query, letter case ignored, extract_search_preview returns "..." +
\* content + "..." with the content taken from the first such transcript
\* entry (a prompt is used only when no transcript entry matches): at most
\* 20 characters before and after the first occurrence, within the entry's
\* bounds, no newline, length <= 50.
C19_SearchPreviewWindow ==
    (ExtractSearchPreviewDone /\ EntriesHolding(out.state, out.query) # {})
        => LET held == EntriesHolding(out.state, out.query)
               first == CHOOSE i \in held : \A j \in held : i <= j
           IN  PreviewAsClaimed(out.state.transcript[first], out.query,
                                out.result)

\* on ASCII transcripts the function is as C19 says
SearchPreviewAsClaimedOnAscii ==
    (/\ ExtractSearchPreviewDone
     /\ EntriesHolding(out.state, out.query) # {}
     /\ \A i \in DOMAIN out.state.transcript : IsAscii(out.state.transcript[i]))
        => LET held == EntriesHolding(out.state, out.query)
               first == CHOOSE i \in held : \A j \in held : i <= j
           IN  PreviewAsClaimed(out.state.transcript[first], out.query,
                                out.result)

FormatDone ==
    /\ pc = "done"
    /\ out.op = "returned"
    /\ out.fn \in {"format_conversation_as_markdown",
                   "format_conversation_as_text"}

\* the blocks of a rendering that are of the kind given, in order
BlocksOf(content, kind) == SelectSeq(content, LAMBDA b : b.kind = kind)

\* body is entry without its leading markers
IsStripped(entry, body) ==
    /\ Len(body) <= Len(entry)
    /\ body = SubSeq(entry, Len(entry) - Len(body) + 1, Len(entry))
    /\ \A i \in 1..(Len(entry) - Len(body)) : entry[i] = 62
    /\ body # << >> => body[1] # 62

\* C20: in the markdown and the plain-text export the output has one
\* section per transcript entry, in transcript order; the entry at index i
\* (from 0) is labelled a user message exactly when it begins with the
\* marker '>' (which is stripped) and an assistant response otherwise, and
\* its section number is floor(i/2)+1 whatever the labels of the other
\* entries are.
C20_ExportSections ==
    FormatDone =>
        LET transcript == out.state.transcript
            headings == BlocksOf(out.result, "heading")
            bodies == BlocksOf(out.result, "body")
        IN  /\ Len(headings) = Len(transcript)
            /\ Len(bodies) = Len(transcript)
            /\ \A i \in 0..(Len(transcript) - 1) :
                   LET entry == transcript[i + 1]
                       marked == entry # << >> /\ entry[1] = 62
                   IN  /\ headings[i + 1].label
                              = (IF marked THEN "user" ELSE "assistant")
                       /\ headings[i + 1].number = (i \div 2) + 1
                       /\ IF marked
                          THEN IsStripped(entry, bodies[i + 1].text)
                          ELSE bodies[i + 1].text = entry

\* a plain-text export of a transcript whose second and third entries are
\* both user messages
C20_Witness ==
    /\ FormatDone
    /\ out.fn = "format_conversation_as_text"
    /\ Len(out.state.transcript) = 3
    /\ out.state.transcript[2][1] = 62
    /\ out.state.transcript[3][1] = 62
    /\ BlocksOf(out.result, "heading")[3].number = 2

(***************************************************************************)
(* Properties of a completed restore.                                      *)
(***************************************************************************)
\* C21: a completed restore changes at most two store keys: the
\* destination path and, only when the destination held a live entry
\* before, one key of the form <destination>.backup.<timestamp>; when the
\* destination held no entry no backup entry is written, and every other
\* entry, the one the record was resolved from included when its path is
\* not the destination, is unchanged.
C21_RestoreChangesAtMostTwoKeys ==
    (RestoreDone /\ out.status = "ok") =>
        LET r == out.r
            pre == r.pre
            source == r.conversation[1][1]
        IN  /\ r.dest \in DOMAIN store
            /\ IF r.dest \in DOMAIN pre
               THEN /\ r.backup_key # None
                    /\ IsBackupKeyOf(r.backup_key[1], r.dest)
                    /\ r.backup_key[1] \in DOMAIN store
                    /\ SameBut(store, pre, {r.dest, r.backup_key[1]})
               ELSE /\ r.backup_key = None
                    /\ DOMAIN store = DOMAIN pre \cup {r.dest}
                    /\ SameBut(store, pre, {r.dest})
            /\ source # r.dest
                   => source \in DOMAIN store /\ store[source] = pre[source]

\* the part of C21 that the code keeps: apart from the destination and the
\* backup key of this restore no entry changes, and the entry the record was
\* resolved from is unchanged unless it is that backup key itself
C21_OnlyDestinationAndBackupChange ==
    (RestoreDone /\ out.status = "ok") =>
        LET r == out.r
            pre == r.pre
            source == r.conversation[1][1]
            changed == {r.dest} \cup (IF r.backup_key = None THEN {}
                                                            ELSE {r.backup_key[1]})
        IN  /\ SameBut(store, pre, changed)
            /\ r.backup_key # None <=> r.dest \in DOMAIN pre
            /\ source \notin changed
                   => source \in DOMAIN store /\ store[source] = pre[source]

\* the failing case of C21: the record was resolved from the backup entry
\* that this restore's own backup then overwrote
C21_SourceOverwritten ==
    /\ RestoreDone
    /\ out.status = "ok"
    /\ out.r.backup_key = <<out.r.conversation[1][1]>>
    /\ store[out.r.conversation[1][1]] # out.r.pre[out.r.conversation[1][1]]

\* C22: after a restore that moved the live record B of the destination into
\* a backup entry, get_conversation_by_id(B's full id) returns a record equal
\* to B whenever no other stored record's id starts with B's id, and then a
\* following restore of B's id in the same directory leaves B as the live
\* entry again.
OnlyRecordUnder(s, state) ==
    \A k \in DecodableKeys(s) :
        Decode(s[k])[1] # state
            => ~StartsWith(Decode(s[k])[1].conversation_id,
                           state.conversation_id)

\* the store after the steps of restore_conversation run on store s at clock
\* t in directory dest with the resolved entry conversation
RestoreFrom(s, dest, conversation, t) ==
    LET existing == GetConversationByPath(s, dest)[2]
        backed == IF RestoreAfterRead(existing) = "restore_backup"
                  THEN BackupConversation(s, dest, existing[1], t).store
                  ELSE s
    IN  SetConversationByPath(backed, dest, conversation[2])

C22_DisplacedRecordReachableById ==
    (RestoreDone /\ out.status = "ok" /\ out.r.existing # None) =>
        LET B == out.r.existing[1]
        IN  OnlyRecordUnder(store, B) =>
                \A c \in Resolutions(store, B.conversation_id) :
                    /\ c # None
                    /\ c[1][2] = B
                    /\ \A t \in now..MaxClock :
                           Holds(RestoreFrom(store, out.r.dest, c[1], t),
                                 out.r.dest, B)

\* B was displaced by a different record and is held by backup entries only
C22_Witness ==
    /\ RestoreDone
    /\ out.status = "ok"
    /\ out.r.existing # None
    /\ out.r.existing[1] # out.r.conversation[1][2]
    /\ OnlyRecordUnder(store, out.r.existing[1])
    /\ \A k \in DOMAIN store :
           Holds(store, k, out.r.existing[1]) => k = out.r.backup_key[1]

\* C23: in every restore execution that overwrites an existing destination
\* entry, the record stored in the backup equals the value the destination
\* held immediately before the overwrite, also when another writer's set to
\* the destination falls between restore's read and its final set.
Overwrites == pc = "restore_set" /\ pc' = "done" /\ rs.dest \in DOMAIN store

BackupIsValueBefore ==
    /\ rs.backup_key # None
    /\ rs.backup_key[1] \in DOMAIN store'
    /\ Decode(store'[rs.backup_key[1]]) = Decode(store[rs.dest])

C23_BackupIsValueBeforeOverwrite ==
    [][Overwrites => BackupIsValueBefore]_vars

\* C23 as the code keeps it: the backup holds the value the destination held
\* immediately before the overwrite provided no other writer has set the
\* destination or the backup key between restore's read and its final set.
Serialized(r) ==
    Touched(r) \cap ({r.dest} \cup (IF r.backup_key = None THEN {}
                                    ELSE {r.backup_key[1]})) = {}

C23_BackupIsValueBeforeOverwriteWhenSerialized ==
    [][(Overwrites /\ Serialized(rs)) => BackupIsValueBefore]_vars

\* a restore that displaced a record other than the one it restored while
\* another writer set an entry of another directory
C23_Witness ==
    /\ RestoreDone
    /\ out.status = "ok"
    /\ out.r.existing # None
    /\ out.r.existing[1] # out.r.conversation[1][2]
    /\ Touched(out.r) # {}
    /\ Serialized(out.r)
    /\ Holds(store, out.r.backup_key[1], out.r.existing[1])

====
